---- MODULE Spec2Model ----
(***************************************************************************)
(* Verification model of null_iron_heart.                                  *)
(*                                                                         *)
(*   Spec    the OSC emission scheduler, osc_thread (src/src/osc.rs)       *)
(*   SpecWs  the websocket ingest actor, WebsocketActor::server_loop       *)
(*           (src/src/heart_rate/websocket.rs)                             *)
(*   SpecHrm  the notification decoder, parse_hrm                          *)
(*            (src/src/heart_rate/measurement.rs)                          *)
(*   SpecAddr the address formatter, format_address (src/src/osc.rs)       *)
(*                                                                         *)
(* Units.  An RR interval of a HeartRateStatus is held as the number of    *)
(* 1/1024 s ticks the sensor reported (measurement.rs:62-66); as an f32    *)
(* number of seconds that value is exact, and so are the products the      *)
(* scheduler forms from it.  A Duration is the record [secs, nanos] of      *)
(* core::time::Duration; an f32 is held as the exact fraction m / 2^k.      *)
(***************************************************************************)
EXTENDS Integers, Sequences, FiniteSets, TLC

VARIABLES
    \* ---- osc_thread ----
    hide_disconnections_pre, \* osc_settings.hide_disconnections_pre
    pc,                      \* position of the osc task
    hr_status,               \* cached HeartRateStatus
    toggle_beat,
    use_real_rr,
    latest_rr,               \* Duration
    heart_beat_interval,     \* period the heartbeat Interval is armed with
    mimic_ble_activity,
    osc_rx,                  \* Statuses queued in the mpsc channel
    senders_dropped,         \* every Sender of the channel has been dropped
    shutdown_token,          \* CancellationToken is cancelled
    out,                     \* packets handed to socket.send_to by the last step
    panic,                   \* why the task panicked, "" while it has not
    branch,                  \* history: select branch the last step of the task took
    prev_mimic,              \* history: mimic_ble_activity before that step
    seen_real_rr,            \* history: a bpm > 0 Status with an interval was handled
    last_real_rr,            \* history: the last such interval, in ticks
    \* ---- WebsocketActor ----
    ws_pc,                   \* position of the websocket task
    ws_result,               \* what server_loop returned, "none" while it runs
    cancel_token,            \* CancellationToken is cancelled
    ws_conn,                 \* the connection of this iteration of 'server
    ws_hr_status,            \* self.hr_status
    ws_out,                  \* AppUpdates broadcast by the last step
    ws_branch,               \* history: select branch the last step of the task took
    ws_conns,                \* connections accepted and not yet dropped
    ws_awaited,              \* history: what the future awaited in the last step yielded
    ws_last_bpm,             \* history: bpm of the last decoded message, if any
    ws_last_rr,              \* history: interval of the last decoded message that had one
    \* ---- parse_hrm (measurement.rs) ----
    hrm_data,                \* the notification buffer, data[0] being hrm_data[1]
    hrm_result,              \* what parse_hrm(data) gave, None before the call
    \* ---- format_address (osc.rs) ----
    address_prefix,          \* osc_settings.address_prefix, a sequence of characters
    param,                   \* the parameter name
    address                  \* what format_address returned, None before the call

oscVars == <<hide_disconnections_pre, pc, hr_status, toggle_beat, use_real_rr,
             latest_rr, heart_beat_interval, mimic_ble_activity, osc_rx,
             senders_dropped, shutdown_token, out, panic, branch, prev_mimic,
             seen_real_rr, last_real_rr>>

wsVars == <<ws_pc, ws_result, cancel_token, ws_conn, ws_hr_status, ws_out, ws_branch,
            ws_conns, ws_awaited, ws_last_bpm, ws_last_rr>>

pureVars == <<hrm_data, hrm_result, address_prefix, param, address>>

vars == <<oscVars, wsVars, pureVars>>

(***************************************************************************)
(* Bounds and input domains                                                *)
(***************************************************************************)
MaxQueue == 2

\* default of osc.pulse_length_ms
PulseLengthMs == 100

\* Duration::from_secs, Duration::from_millis
Secs(n) == [secs |-> n, nanos |-> 0]
Millis(n) == [secs |-> n \div 1000, nanos |-> (n % 1000) * 1000000]

\* Duration::ZERO
ZeroDuration == [secs |-> 0, nanos |-> 0]

\* Duration::from_secs(7) of the mimic timer is not needed as a number: timer
\* expiry is an event the environment may deliver at any select.

Status(bpm, rr) == [heart_rate_bpm |-> bpm, rr_intervals |-> rr]

\* HeartRateStatus::default(): zero bpm, no intervals
DefaultStatus == Status(0, <<>>)

\* Statuses the producers may queue.  410 ticks = 400.39 ms, 870 ticks =
\* 849.6 ms, 1024 ticks = 1 s, 90 ticks = 87.9 ms (shorter than the pulse).
StatusValues ==
    { Status(0, <<>>), Status(0, <<870>>),
      Status(150, <<>>),
      Status(60, <<1024, 410>>),
      Status(75, <<90>>) }

(***************************************************************************)
(* Pure functions of osc.rs                                                *)
(***************************************************************************)
\* (latest_rr * 1000.0) as i32, latest_rr = ticks/1024 as f32: exact, truncated
RrToMillisI32(ticks) == (ticks * 125) \div 128

\* long division of n by d: a = floor(n * 2^k / d) and r the remainder, carried
\* on until a has the 24 bits of an f32 significand
RECURSIVE F32Normalise(_, _, _, _)
F32Normalise(a, r, k, d) ==
    IF a >= 2^23 THEN [m |-> a, r |-> r, k |-> k]
    ELSE F32Normalise(2 * a + (IF 2 * r >= d THEN 1 ELSE 0), (2 * r) % d, k + 1, d)

\* 60.0 / bpm as f32: the quotient rounded to nearest, ties to even, as the
\* fraction m / 2^k
F32Div60(bpm) ==
    LET q  == F32Normalise(60 \div bpm, 60 % bpm, 0, bpm)
        up == 2 * q.r > bpm \/ (2 * q.r = bpm /\ q.m % 2 = 1)
    IN [m |-> IF up THEN q.m + 1 ELSE q.m, k |-> q.k]

\* Duration::from_secs_f32 of the f32 m / 2^k: whole seconds, and the fraction
\* in nanoseconds rounded to nearest, ties to even.  The product
\* frac * 1953125 is formed in two 24-bit limbs hi, lo (10^9 = 2^9 * 1953125,
\* 1953125 = 476 * 4096 + 3429).
DurationFromSecsF32(f) ==
    LET whole == IF f.k <= 24 THEN f.m \div 2^(f.k) ELSE 0
        frac  == IF f.k <= 24 THEN f.m % 2^(f.k) ELSE f.m
        fh    == frac \div 4096
        fl    == frac % 4096
        mid   == fh * 3429 + fl * 476
        losum == (mid % 4096) * 4096 + fl * 3429
        lo    == losum % 2^24
        hi    == fh * 476 + mid \div 4096 + losum \div 2^24
        D     == f.k - 9
        down  == IF f.k < 9 THEN frac * 1953125 * 2^(9 - f.k)
                 ELSE IF D <= 24 THEN hi * 2^(24 - D) + lo \div 2^D
                 ELSE hi \div 2^(D - 24)
        rem   == IF f.k <= 9 THEN 0
                 ELSE IF D <= 24 THEN lo % 2^D
                 ELSE (hi % 2^(D - 24)) * 2^24 + lo
        half  == IF f.k <= 9 THEN 1 ELSE 2^(D - 1)
        up    == rem > half \/ (rem = half /\ down % 2 = 1)
        nanos == IF up THEN down + 1 ELSE down
    IN IF nanos = 1000000000
         THEN [secs |-> whole + 1, nanos |-> 0]
         ELSE [secs |-> whole, nanos |-> nanos]

\* Duration::from_secs_f32(*new_rr), new_rr = ticks/1024 as f32
DurationFromRr(ticks) == DurationFromSecsF32([m |-> ticks, k |-> 10])

\* rr_from_bpm
RrFromBpm(bpm) == DurationFromSecsF32(F32Div60(bpm))

\* Duration's ordering
DurationGt(a, b) == a.secs > b.secs \/ (a.secs = b.secs /\ a.nanos > b.nanos)

\* Duration::saturating_sub
SaturatingSub(a, b) ==
    IF ~DurationGt(a, b) THEN ZeroDuration
    ELSE IF a.nanos >= b.nanos
      THEN [secs |-> a.secs - b.secs, nanos |-> a.nanos - b.nanos]
    ELSE [secs |-> a.secs - b.secs - 1, nanos |-> a.nanos + 1000000000 - b.nanos]

Msg(addr, arg) == [kind |-> "msg", addr |-> addr, arg |-> arg]

\* form_bpm_bundle: content in push order
FormBpmBundle(hr) ==
    LET int_hr_msg    == Msg("int_hr", hr.heart_rate_bpm)
        \* (bpm / 255.0) * 2.0 - 1.0, kept as its numerator over 255
        float_hr_msg  == Msg("float_hr_x255", 2 * hr.heart_rate_bpm - 255)
        connected_msg == Msg("connected", hr.heart_rate_bpm > 0)
        rr == IF hr.heart_rate_bpm = 0
                THEN << Msg("latest_rr", 0) >>
              ELSE IF hr.rr_intervals # <<>>
                THEN << Msg("latest_rr",
                            RrToMillisI32(hr.rr_intervals[Len(hr.rr_intervals)])) >>
              ELSE << >>
    IN [kind |-> "bundle",
        content |-> rr \o << int_hr_msg, float_hr_msg, connected_msg >>]

\* send_beat_param's message
BeatParam(beat, addr) == Msg(addr, beat)

\* mimic_hr_activity: starts from HeartRateStatus::default(), adds jitter 0;
\* the argument is not read
MimicHrActivity(hr) ==
    LET jitter == 0
        mimic  == DefaultStatus
    IN [mimic EXCEPT !.heart_rate_bpm = IF @ + jitter < 0 THEN 0 ELSE @ + jitter]

(***************************************************************************)
(* osc_thread                                                              *)
(***************************************************************************)
OscInit ==
    /\ hide_disconnections_pre \in BOOLEAN
    /\ pc = "spawned"
    /\ hr_status = DefaultStatus
    /\ toggle_beat = TRUE
    /\ use_real_rr = FALSE
    /\ latest_rr = Secs(1)
    /\ heart_beat_interval = Secs(1)
    /\ mimic_ble_activity = FALSE
    /\ osc_rx = << >>
    /\ senders_dropped = FALSE
    /\ shutdown_token = FALSE
    /\ out = << >>
    /\ panic = ""
    /\ branch = "none"
    /\ prev_mimic = FALSE
    /\ seen_real_rr = FALSE
    /\ last_real_rr = 0

\* send_bpm_bundle / send_beat_param called for each of pkts in turn.  Each
\* socket.send_to(..).unwrap() either succeeds or panics the task; the packet
\* of the failing call is the last one handed to the socket.
\* socket.send_to(..).unwrap() on an Err (lines 75, 85)
SendPanic == "send_to"

\* time::interval(Duration::ZERO) (line 223)
IntervalPanic == "interval"

\* SocketAddrV4::from_str(..).expect(..) on an Err (lines 143-145)
AddrPanic == "Invalid target IP address!"

\* UdpSocket::bind("0.0.0.0:0").expect(..) on an Err (line 147)
BindPanic == "Failed to bind to UDP socket!"

SendAll(pkts, next_pc) ==
    IF pkts = << >>
      THEN out' = << >> /\ pc' = next_pc /\ panic' = panic
      ELSE \E n \in 1..Len(pkts), ok \in BOOLEAN :
             /\ ok => n = Len(pkts)
             /\ out' = SubSeq(pkts, 1, n)
             /\ pc' = IF ok THEN next_pc ELSE "panicked"
             /\ panic' = IF ok THEN panic ELSE SendPanic

\* the reset bundle and the two beat-off messages (lines 152-159, 235-242)
ResetPackets ==
    << FormBpmBundle(DefaultStatus),
       BeatParam(FALSE, "beat_toggle"),
       BeatParam(FALSE, "beat_pulse") >>

\* lines 143-149: the target address is parsed from target_ip and port, then
\* the socket is bound; either expect() panics the task before anything is
\* sent
OpenSocket ==
    /\ pc = "spawned"
    /\ branch' = "open"
    /\ prev_mimic' = mimic_ble_activity
    /\ out' = << >>
    /\ \E target_addr_ok \in BOOLEAN, socket_ok \in BOOLEAN :
         IF ~target_addr_ok THEN pc' = "panicked" /\ panic' = AddrPanic
         ELSE IF ~socket_ok THEN pc' = "panicked" /\ panic' = BindPanic
         ELSE pc' = "start" /\ panic' = panic
    /\ UNCHANGED <<hide_disconnections_pre, hr_status, toggle_beat, use_real_rr,
                   latest_rr, heart_beat_interval, mimic_ble_activity, osc_rx,
                   senders_dropped, shutdown_token, seen_real_rr, last_real_rr>>
    /\ UNCHANGED <<wsVars, pureVars>>

\* lines 151-175: the initial packets, then the loop is entered
Initialize ==
    /\ pc = "start"
    /\ branch' = "init"
    /\ prev_mimic' = mimic_ble_activity
    /\ SendAll(ResetPackets, "select")
    /\ UNCHANGED <<hide_disconnections_pre, hr_status, toggle_beat, use_real_rr,
                   latest_rr, heart_beat_interval, mimic_ble_activity, osc_rx,
                   senders_dropped, shutdown_token, seen_real_rr, last_real_rr>>
    /\ UNCHANGED <<wsVars, pureVars>>

LastOf(seq) == seq[Len(seq)]

\* a zero-bpm Status cached even when it is hidden
StatusAfterData_HiddenZeroCached(data, cur, hide) == data

\* hr_status after Some(data) (lines 185-203)
StatusAfterData(data, cur, hide) ==
    IF data.heart_rate_bpm > 0 THEN data
    ELSE IF hide THEN cur
    ELSE data

\* latest_rr recomputed from bpm whenever the Status has no interval
LatestRrAfterData_AlwaysFromBpm(data, cur, real) ==
    IF data.heart_rate_bpm > 0
      THEN IF data.rr_intervals # << >>
             THEN DurationFromRr(LastOf(data.rr_intervals))
             ELSE RrFromBpm(data.heart_rate_bpm)
      ELSE cur

\* latest_rr after Some(data) (lines 187-193)
LatestRrAfterData(data, cur, real) ==
    IF data.heart_rate_bpm > 0
      THEN IF data.rr_intervals # << >>
             THEN DurationFromRr(LastOf(data.rr_intervals))
           ELSE IF ~real THEN RrFromBpm(data.heart_rate_bpm)
           ELSE cur
      ELSE cur

\* use_real_rr after Some(data) (line 190)
UseRealRrAfterData(data, real) ==
    IF data.heart_rate_bpm > 0 /\ data.rr_intervals # << >> THEN TRUE ELSE real

\* mimic_ble_activity never cleared by a Status with bpm > 0
MimicAfterData_NeverCleared(data, cur, hide) ==
    IF data.heart_rate_bpm > 0 THEN cur
    ELSE IF hide THEN TRUE
    ELSE cur

\* mimic_ble_activity after Some(data) (lines 194, 198)
MimicAfterData(data, cur, hide) ==
    IF data.heart_rate_bpm > 0 THEN FALSE
    ELSE IF hide THEN TRUE
    ELSE cur

\* no bundle for a zero-bpm Status, whatever the policy
BundlesForData_SkipsZero(data, hide) ==
    IF data.heart_rate_bpm > 0 THEN << FormBpmBundle(data) >> ELSE << >>

\* the bundles sent for Some(data) (lines 195, 201)
BundlesForData(data, hide) ==
    IF data.heart_rate_bpm > 0 THEN << FormBpmBundle(data) >>
    ELSE IF hide THEN << >>
    ELSE << FormBpmBundle(data) >>

\* select branch: locked_receiver.recv() => Some(data)
RecvStatus ==
    /\ pc = "select"
    /\ branch' = "recv"
    /\ prev_mimic' = mimic_ble_activity
    /\ osc_rx # << >>
    /\ LET data == Head(osc_rx) IN
         /\ osc_rx' = Tail(osc_rx)
         /\ hr_status' = StatusAfterData(data, hr_status, hide_disconnections_pre)
         /\ latest_rr' = LatestRrAfterData(data, latest_rr, use_real_rr)
         /\ use_real_rr' = UseRealRrAfterData(data, use_real_rr)
         /\ mimic_ble_activity' =
                MimicAfterData(data, mimic_ble_activity, hide_disconnections_pre)
         /\ SendAll(BundlesForData(data, hide_disconnections_pre), "select")
         /\ IF data.heart_rate_bpm > 0 /\ data.rr_intervals # << >>
              THEN /\ seen_real_rr' = TRUE
                   /\ last_real_rr' = LastOf(data.rr_intervals)
              ELSE UNCHANGED <<seen_real_rr, last_real_rr>>
    /\ UNCHANGED <<hide_disconnections_pre, toggle_beat, heart_beat_interval,
                   senders_dropped, shutdown_token>>
    /\ UNCHANGED <<wsVars, pureVars>>

\* select branch: locked_receiver.recv() => None; break, then lines 235-242
RecvClosed ==
    /\ pc = "select"
    /\ branch' = "closed"
    /\ prev_mimic' = mimic_ble_activity
    /\ osc_rx = << >>
    /\ senders_dropped
    /\ SendAll(ResetPackets, "done")
    /\ UNCHANGED <<hide_disconnections_pre, hr_status, toggle_beat, use_real_rr,
                   latest_rr, heart_beat_interval, mimic_ble_activity, osc_rx,
                   senders_dropped, shutdown_token, seen_real_rr, last_real_rr>>
    /\ UNCHANGED <<wsVars, pureVars>>

\* select branch: shutdown_token.cancelled(); break, then lines 235-242
Cancelled ==
    /\ pc = "select"
    /\ branch' = "cancelled"
    /\ prev_mimic' = mimic_ble_activity
    /\ shutdown_token
    /\ SendAll(ResetPackets, "done")
    /\ UNCHANGED <<hide_disconnections_pre, hr_status, toggle_beat, use_real_rr,
                   latest_rr, heart_beat_interval, mimic_ble_activity, osc_rx,
                   senders_dropped, shutdown_token, seen_real_rr, last_real_rr>>
    /\ UNCHANGED <<wsVars, pureVars>>

\* the beat messages of a tick sent whatever the cached bpm
BeatOnPackets_IgnoresBpm(hr, toggle) ==
    << BeatParam(toggle, "beat_toggle"), BeatParam(TRUE, "beat_pulse") >>

\* the packets of a heartbeat tick up to the sleep (lines 216-218)
BeatOnPackets(hr, toggle) ==
    IF hr.heart_rate_bpm > 0
      THEN << BeatParam(toggle, "beat_toggle"), BeatParam(TRUE, "beat_pulse") >>
      ELSE << >>

\* select branch: heart_beat_interval.tick(), up to sleep(beat_pulse_duration)
HeartBeatTick ==
    /\ pc = "select"
    /\ branch' = "heartbeat"
    /\ prev_mimic' = mimic_ble_activity
    /\ SendAll(BeatOnPackets(hr_status, toggle_beat),
               IF hr_status.heart_rate_bpm > 0 THEN "hold" ELSE "select")
    /\ UNCHANGED <<hide_disconnections_pre, hr_status, toggle_beat, use_real_rr,
                   latest_rr, heart_beat_interval, mimic_ble_activity, osc_rx,
                   senders_dropped, shutdown_token, seen_real_rr, last_real_rr>>
    /\ UNCHANGED <<wsVars, pureVars>>

\* latest_rr.saturating_sub(beat_pulse_duration) (line 222)
NewInterval(rr) == SaturatingSub(rr, Millis(PulseLengthMs))

\* the rest of the tick handler once the sleep has elapsed (lines 220-224);
\* time::interval panics when its period is zero
PulseHoldElapsed ==
    /\ pc = "hold"
    /\ branch' = "hold_elapsed"
    /\ prev_mimic' = mimic_ble_activity
    /\ \E ok \in BOOLEAN :
         /\ out' = << BeatParam(FALSE, "beat_pulse") >>
         /\ IF ok
              THEN /\ toggle_beat' = ~toggle_beat
                   /\ IF NewInterval(latest_rr) = ZeroDuration
                        THEN /\ pc' = "panicked"
                             /\ panic' = IntervalPanic
                             /\ UNCHANGED heart_beat_interval
                        ELSE /\ pc' = "select"
                             /\ heart_beat_interval' = NewInterval(latest_rr)
                             /\ UNCHANGED panic
              ELSE /\ pc' = "panicked"
                   /\ panic' = SendPanic
                   /\ UNCHANGED <<toggle_beat, heart_beat_interval>>
    /\ UNCHANGED <<hide_disconnections_pre, hr_status, use_real_rr, latest_rr,
                   mimic_ble_activity, osc_rx, senders_dropped, shutdown_token,
                   seen_real_rr, last_real_rr>>
    /\ UNCHANGED <<wsVars, pureVars>>

\* the bundles of a mimic tick (lines 228-231)
MimicPackets(hr, mimic) ==
    IF mimic /\ hr.heart_rate_bpm > 0
      THEN << FormBpmBundle(MimicHrActivity(hr)) >>
      ELSE << >>

\* select branch: mimic_update_interval.tick()
MimicTick ==
    /\ pc = "select"
    /\ branch' = "mimic"
    /\ prev_mimic' = mimic_ble_activity
    /\ SendAll(MimicPackets(hr_status, mimic_ble_activity), "select")
    /\ UNCHANGED <<hide_disconnections_pre, hr_status, toggle_beat, use_real_rr,
                   latest_rr, heart_beat_interval, mimic_ble_activity, osc_rx,
                   senders_dropped, shutdown_token, seen_real_rr, last_real_rr>>
    /\ UNCHANGED <<wsVars, pureVars>>

(***************************************************************************)
(* Environment of osc_thread: the producers of the channel and the owner   *)
(* of the cancellation token                                               *)
(***************************************************************************)
SendStatus ==
    /\ ~senders_dropped
    /\ Len(osc_rx) < MaxQueue
    /\ \E s \in StatusValues : osc_rx' = Append(osc_rx, s)
    /\ UNCHANGED <<hide_disconnections_pre, pc, hr_status, toggle_beat, use_real_rr,
                   latest_rr, heart_beat_interval, mimic_ble_activity,
                   senders_dropped, shutdown_token, out, panic, branch, prev_mimic,
                   seen_real_rr, last_real_rr>>
    /\ UNCHANGED <<wsVars, pureVars>>

DropSenders ==
    /\ ~senders_dropped
    /\ senders_dropped' = TRUE
    /\ UNCHANGED <<hide_disconnections_pre, pc, hr_status, toggle_beat, use_real_rr,
                   latest_rr, heart_beat_interval, mimic_ble_activity, osc_rx,
                   shutdown_token, out, panic, branch, prev_mimic, seen_real_rr,
                   last_real_rr>>
    /\ UNCHANGED <<wsVars, pureVars>>

Cancel ==
    /\ ~shutdown_token
    /\ shutdown_token' = TRUE
    /\ UNCHANGED <<hide_disconnections_pre, pc, hr_status, toggle_beat, use_real_rr,
                   latest_rr, heart_beat_interval, mimic_ble_activity, osc_rx,
                   senders_dropped, out, panic, branch, prev_mimic, seen_real_rr,
                   last_real_rr>>
    /\ UNCHANGED <<wsVars, pureVars>>

(***************************************************************************)
(* WebsocketActor (websocket.rs).  Durations of its Status are whole        *)
(* milliseconds (Duration::from_millis).                                   *)
(***************************************************************************)
None == << >>
Some(v) == << v >>

\* JSONHeartRate
JSONHeartRate(bpm, latest_rr_ms, battery) ==
    [bpm |-> bpm, latest_rr_ms |-> latest_rr_ms, battery |-> battery]

JsonValues ==
    { JSONHeartRate(b, r, l) : b \in {0, 60, 75},
                               r \in {None, Some(850), Some(900), Some(950), Some(1200)},
                               l \in {None, Some(80)} }

\* what server.next() may yield on an open connection: a text frame that
\* decodes, one that does not, a frame that is not text, an error, the end
Items ==
    { [type |-> "text", json |-> Some(j)] : j \in JsonValues }
      \cup { [type |-> "text", json |-> None],
             [type |-> "binary"], [type |-> "err"], [type |-> "none"] }

BatteryNotReported == [tag |-> "NotReported"]
BatteryLevel(n) == [tag |-> "Level", level |-> n]

\* rr_twitch_threshold, in thousandths
RrTwitchThreshold == 100

\* a deviation of exactly the threshold counted as a twitch
TwitcherHandle_TieTwitches(bpm, rr_intervals) ==
    IF rr_intervals = << >>
      THEN << FALSE, FALSE >>
      ELSE LET latest == rr_intervals[Len(rr_intervals)]
           IN << latest * bpm * 1000 <= 60000 * (1000 - RrTwitchThreshold),
                 latest * bpm * 1000 >= 60000 * (1000 + RrTwitchThreshold) >>

\* Twitcher::handle: the latest interval (ms) against the expected interval
\* 60/bpm s and the threshold fraction, the division cleared:
\* latest < (60000 / bpm) * (1 - t) and latest > (60000 / bpm) * (1 + t)
TwitcherHandle(bpm, rr_intervals) ==
    IF rr_intervals = << >>
      THEN << FALSE, FALSE >>
      ELSE LET latest == rr_intervals[Len(rr_intervals)]
           IN << latest * bpm * 1000 < 60000 * (1000 - RrTwitchThreshold),
                 latest * bpm * 1000 > 60000 * (1000 + RrTwitchThreshold) >>

\* WebsocketActor::build, lines 48-51
WsInitialStatus ==
    [heart_rate_bpm |-> 0, battery_level |-> BatteryNotReported,
     rr_intervals |-> << >>, twitch_up |-> FALSE, twitch_down |-> FALSE]

ErrorPopup(popup, text) == [kind |-> "error", popup |-> popup, text |-> text]

StatusUpdate(hr) == [kind |-> "status", status |-> hr]

\* a reported interval appended to the sequence instead of replacing it
FoldJson_AppendsRr(hr, new_status) ==
    LET battery == IF new_status.battery # None
                     THEN BatteryLevel(new_status.battery[1])
                     ELSE hr.battery_level
        rr == IF new_status.latest_rr_ms # None
                THEN Append(hr.rr_intervals, new_status.latest_rr_ms[1])
                ELSE hr.rr_intervals
        twitch == TwitcherHandle(new_status.bpm, rr)
    IN [heart_rate_bpm |-> new_status.bpm, battery_level |-> battery,
        rr_intervals |-> rr, twitch_up |-> twitch[1], twitch_down |-> twitch[2]]

\* a message without a battery field puts the indicator back to not-reported
FoldJson_BatteryForgotten(hr, new_status) ==
    LET battery == IF new_status.battery # None
                     THEN BatteryLevel(new_status.battery[1])
                     ELSE BatteryNotReported
        rr == IF new_status.latest_rr_ms # None
                THEN << new_status.latest_rr_ms[1] >>
                ELSE hr.rr_intervals
        twitch == TwitcherHandle(new_status.bpm, rr)
    IN [heart_rate_bpm |-> new_status.bpm, battery_level |-> battery,
        rr_intervals |-> rr, twitch_up |-> twitch[1], twitch_down |-> twitch[2]]

\* lines 168-186: the Status after a decoded message
FoldJson(hr, new_status) ==
    LET battery == IF new_status.battery # None
                     THEN BatteryLevel(new_status.battery[1])
                     ELSE hr.battery_level
        rr == IF new_status.latest_rr_ms # None
                THEN << new_status.latest_rr_ms[1] >>
                ELSE hr.rr_intervals
        twitch == TwitcherHandle(new_status.bpm, rr)
    IN [heart_rate_bpm |-> new_status.bpm, battery_level |-> battery,
        rr_intervals |-> rr, twitch_up |-> twitch[1], twitch_down |-> twitch[2]]

\* a transport error is reported and the connection kept
HandleWsMessage_ErrorKeepsConn(hr, item) ==
    IF item.type = "text"
      THEN IF item.json # None
             THEN LET new == FoldJson(hr, item.json[1])
                  IN << new, StatusUpdate(new), TRUE >>
             ELSE << hr, ErrorPopup("Intermittent", "Invalid heart rate message"), TRUE >>
    ELSE IF item.type = "binary"
      THEN << hr, ErrorPopup("UserMustDismiss", "Invalid message type (expected text)"),
              TRUE >>
    ELSE IF item.type = "err"
      THEN << hr, ErrorPopup("Intermittent", "Error receiving message"), TRUE >>
    ELSE << hr, ErrorPopup("Intermittent", "Websocket client disconnected"), FALSE >>

\* handle_ws_message: <<Status after, AppUpdate, keep_conn>>
HandleWsMessage(hr, item) ==
    IF item.type = "text"
      THEN IF item.json # None
             THEN LET new == FoldJson(hr, item.json[1])
                  IN << new, StatusUpdate(new), TRUE >>
             ELSE << hr, ErrorPopup("Intermittent", "Invalid heart rate message"), TRUE >>
    ELSE IF item.type = "binary"
      THEN << hr, ErrorPopup("UserMustDismiss", "Invalid message type (expected text)"),
              TRUE >>
    ELSE IF item.type = "err"
      THEN << hr, ErrorPopup("Intermittent", "Error receiving message"), FALSE >>
    ELSE << hr, ErrorPopup("Intermittent", "Websocket client disconnected"), FALSE >>

\* the state once websocket_thread has built the actor and shared its address
WsInit ==
    /\ ws_pc = "build"
    /\ ws_result = "none"
    /\ cancel_token = FALSE
    /\ ws_conn = "none"
    /\ ws_hr_status = WsInitialStatus
    /\ ws_out = << >>
    /\ ws_branch = "none"
    /\ ws_conns = 0
    /\ ws_awaited = [type |-> "nothing"]
    /\ ws_last_bpm = None
    /\ ws_last_rr = None

\* AppUpdate::WebsocketReady(local_addr), the URL shared with the UI (line 219)
WebsocketReady == [kind |-> "ready"]

\* websocket_thread, lines 208-219: WebsocketActor::build binds the listener.
\* On an Err the failure is reported and the task returns without entering
\* server_loop; on Ok the local address is broadcast and server_loop starts.
Build ==
    /\ ws_pc = "build"
    /\ ws_branch' = "build"
    /\ \E ok \in BOOLEAN :
         IF ok
           THEN /\ ws_pc' = "accept"
                /\ ws_out' = << WebsocketReady >>
                /\ ws_awaited' = [type |-> "built"]
           ELSE /\ ws_pc' = "returned"
                /\ ws_out' = << ErrorPopup("Detailed", "Failed to build websocket.") >>
                /\ ws_awaited' = [type |-> "build_err"]
    /\ UNCHANGED <<ws_result, cancel_token, ws_conn, ws_hr_status, ws_conns,
                   ws_last_bpm, ws_last_rr>>
    /\ UNCHANGED <<oscVars, pureVars>>

\* a connection accepted while another one is being serviced
Accept_WhileReceiving ==
    /\ ws_pc \in {"accept", "receiving"}
    /\ ws_branch' = "accept"
    /\ \E ok \in BOOLEAN :
         IF ok
           THEN /\ ws_pc' = "handshake"
                /\ ws_conn' = "tcp"
                /\ ws_conns' = ws_conns + 1
                /\ ws_awaited' = [type |-> "accepted"]
                /\ ws_out' = << >>
           ELSE /\ ws_pc' = ws_pc
                /\ ws_conn' = ws_conn
                /\ ws_conns' = ws_conns
                /\ ws_awaited' = [type |-> "accept_err"]
                /\ ws_out' = << ErrorPopup("UserMustDismiss", "Handshake failed") >>
    /\ UNCHANGED <<ws_result, cancel_token, ws_hr_status, ws_last_bpm, ws_last_rr>>
    /\ UNCHANGED <<oscVars, pureVars>>

\* 'server select: self.listener.accept() => Ok or Err (lines 74-87)
Accept ==
    /\ ws_pc = "accept"
    /\ ws_branch' = "accept"
    /\ \E ok \in BOOLEAN :
         IF ok
           THEN /\ ws_pc' = "handshake"
                /\ ws_conn' = "tcp"
                /\ ws_conns' = ws_conns + 1
                /\ ws_awaited' = [type |-> "accepted"]
                /\ ws_out' = << >>
           ELSE /\ ws_pc' = "accept"
                /\ ws_conn' = "none"
                /\ ws_conns' = ws_conns
                /\ ws_awaited' = [type |-> "accept_err"]
                /\ ws_out' = << ErrorPopup("UserMustDismiss", "Handshake failed") >>
    /\ UNCHANGED <<ws_result, cancel_token, ws_hr_status, ws_last_bpm, ws_last_rr>>
    /\ UNCHANGED <<oscVars, pureVars>>

\* 'server select: cancel_token.cancelled() => return Ok(()) (lines 88-91)
AcceptCancelled ==
    /\ ws_pc = "accept"
    /\ cancel_token
    /\ ws_branch' = "accept_cancelled"
    /\ ws_pc' = "returned"
    /\ ws_result' = "Ok"
    /\ ws_out' = << >>
    /\ ws_awaited' = [type |-> "cancelled"]
    /\ UNCHANGED <<cancel_token, ws_conn, ws_hr_status, ws_conns, ws_last_bpm,
                   ws_last_rr>>
    /\ UNCHANGED <<oscVars, pureVars>>

\* a failed handshake returned from server_loop as its error
Handshake_FailureIsFatal ==
    /\ ws_pc = "handshake"
    /\ ws_branch' = "handshake"
    /\ \E ok \in BOOLEAN :
         IF ok
           THEN /\ ws_pc' = "receiving"
                /\ ws_conn' = "open"
                /\ ws_conns' = ws_conns
                /\ ws_awaited' = [type |-> "upgraded"]
                /\ ws_result' = ws_result
                /\ ws_out' = << >>
           ELSE /\ ws_pc' = "returned"
                /\ ws_conn' = "none"
                /\ ws_conns' = ws_conns - 1
                /\ ws_awaited' = [type |-> "handshake_err"]
                /\ ws_result' = "Err"
                /\ ws_out' = << ErrorPopup("Detailed", "Websocket server error") >>
    /\ UNCHANGED <<cancel_token, ws_hr_status, ws_last_bpm, ws_last_rr>>
    /\ UNCHANGED <<oscVars, pureVars>>

\* ServerBuilder::new().accept(connection).await (lines 93-103)
Handshake ==
    /\ ws_pc = "handshake"
    /\ ws_branch' = "handshake"
    /\ \E ok \in BOOLEAN :
         IF ok
           THEN /\ ws_pc' = "receiving"
                /\ ws_conn' = "open"
                /\ ws_conns' = ws_conns
                /\ ws_awaited' = [type |-> "upgraded"]
                /\ ws_out' = << >>
           ELSE /\ ws_pc' = "accept"
                /\ ws_conn' = "none"
                /\ ws_conns' = ws_conns - 1
                /\ ws_awaited' = [type |-> "handshake_err"]
                /\ ws_out' = << ErrorPopup("UserMustDismiss", "Handshake failed") >>
    /\ UNCHANGED <<ws_result, cancel_token, ws_hr_status, ws_last_bpm, ws_last_rr>>
    /\ UNCHANGED <<oscVars, pureVars>>

\* 'receiving select: item = server.next() (lines 106-112).  The item is
\* handled the same way whether or not the actor has called close() on the
\* stream before (lines 113-116).
RecvItem ==
    /\ ws_pc = "receiving"
    /\ ws_branch' = "recv"
    /\ \E item \in Items :
         /\ LET r == HandleWsMessage(ws_hr_status, item) IN
              /\ ws_hr_status' = r[1]
              /\ ws_out' = << r[2] >>
              /\ IF r[3]
                   THEN ws_pc' = "receiving" /\ ws_conn' = ws_conn
                        /\ ws_conns' = ws_conns
                   ELSE ws_pc' = "accept" /\ ws_conn' = "none"
                        /\ ws_conns' = ws_conns - 1
         /\ ws_awaited' = item
         /\ IF item.type = "text" /\ item.json # None
              THEN /\ ws_last_bpm' = Some(item.json[1].bpm)
                   /\ ws_last_rr' = IF item.json[1].latest_rr_ms # None
                                      THEN item.json[1].latest_rr_ms
                                      ELSE ws_last_rr
              ELSE UNCHANGED <<ws_last_bpm, ws_last_rr>>
    /\ UNCHANGED <<ws_result, cancel_token>>
    /\ UNCHANGED <<oscVars, pureVars>>

\* 'receiving select: cancel_token.cancelled() => server.close().await?
\* (lines 113-116): an Err is returned through websocket_thread, which reports
\* it (lines 221-225); after an Ok the 'receiving loop goes on
RecvCancelled ==
    /\ ws_pc = "receiving"
    /\ cancel_token
    /\ ws_branch' = "recv_cancelled"
    /\ \E ok \in BOOLEAN :
         IF ok
           THEN /\ ws_pc' = "receiving"
                /\ ws_conn' = "closed"
                /\ ws_conns' = ws_conns
                /\ ws_awaited' = [type |-> "closed"]
                /\ ws_result' = ws_result
                /\ ws_out' = << >>
           ELSE /\ ws_pc' = "returned"
                /\ ws_conn' = "none"
                /\ ws_conns' = ws_conns - 1
                /\ ws_awaited' = [type |-> "close_err"]
                /\ ws_result' = "Err"
                /\ ws_out' = << ErrorPopup("Detailed", "Websocket server error") >>
    /\ UNCHANGED <<cancel_token, ws_hr_status, ws_last_bpm, ws_last_rr>>
    /\ UNCHANGED <<oscVars, pureVars>>

\* the owner of the token cancels it
WsCancel ==
    /\ ~cancel_token
    /\ cancel_token' = TRUE
    /\ UNCHANGED <<ws_pc, ws_result, ws_conn, ws_hr_status, ws_out, ws_branch,
                   ws_conns, ws_awaited, ws_last_bpm, ws_last_rr>>
    /\ UNCHANGED <<oscVars, pureVars>>

WsStep ==
    \/ Build
    \/ Accept
    \/ AcceptCancelled
    \/ Handshake
    \/ RecvItem
    \/ RecvCancelled

(***************************************************************************)
(* parse_hrm (measurement.rs).  data[i] of the source is hrm_data[i + 1].  *)
(* A Duration of the result is held as Rust holds it: whole seconds and the *)
(* nanoseconds of the remaining fraction.                                  *)
(***************************************************************************)
MaxLen == 7

\* the flag bytes: every combination of bits 0..4
FlagValues == 0..31

\* the values of the other bytes
ByteValues == {1, 10, 255}

\* the buffers a notification may carry: a flag byte and up to MaxLen - 1
\* further bytes, whether or not they are enough for the announced fields
Buffers ==
    { << f >> \o b : f \in FlagValues,
                     b \in UNION { [1..n -> ByteValues] : n \in 0..(MaxLen - 1) } }

\* byte & mask == mask, for a mask of one bit
BitSet(byte, mask) == (byte \div mask) % 2 = 1

\* u16::from_le_bytes([lo, hi])
U16FromLeBytes(lo, hi) == lo + 256 * hi

\* Duration::from_secs_f32(as_u16 as f32 / 1024.0): the quotient is exact in
\* f32, and the conversion rounds to the nearest nanosecond, ties to even
DurationFromTicks(as_u16) ==
    LET twice == (as_u16 % 1024) * 1953125
        down  == twice \div 2
    IN [secs  |-> as_u16 \div 1024,
        nanos |-> IF twice % 2 = 0 THEN down
                  ELSE IF down % 2 = 0 THEN down ELSE down + 1]

\* 2 + if is_16_bit { 1 } else { 0 }
EnergyExpendedIndex(data) == 2 + (IF BitSet(data[1], 1) THEN 1 ELSE 0)

\* 2 + if has_energy_expended { 2 } else { 0 } + if is_16_bit { 1 } else { 0 }
RrIntervalIndex(data) ==
    2 + (IF BitSet(data[1], 8) THEN 2 ELSE 0) + (IF BitSet(data[1], 1) THEN 1 ELSE 0)

HeartRateMeasurement(bpm, contact, energy, rr) ==
    [kind |-> "measurement", bpm |-> bpm, is_sensor_contact_detected |-> contact,
     energy_expended |-> energy, rr_intervals |-> rr]

\* an index past the end of the slice
IndexPanic == [kind |-> "panic"]

\* the bpm field read as one byte whatever bit 0 says
ParseHrm_BpmAlwaysOneByte(data) ==
    IF Len(data) < RrIntervalIndex(data)
      THEN IndexPanic
      ELSE LET rr_interval_index == RrIntervalIndex(data)
               rr_interval_count == (Len(data) - rr_interval_index) \div 2
           IN HeartRateMeasurement(
                data[2],
                IF BitSet(data[1], 4) THEN Some(BitSet(data[1], 2)) ELSE None,
                IF BitSet(data[1], 8)
                  THEN Some(U16FromLeBytes(data[EnergyExpendedIndex(data) + 1],
                                           data[EnergyExpendedIndex(data) + 2]))
                  ELSE None,
                [i \in 1..rr_interval_count |->
                   DurationFromTicks(
                     U16FromLeBytes(data[rr_interval_index + 2 * (i - 1) + 1],
                                    data[rr_interval_index + 2 * (i - 1) + 2]))])

\* the energy field read at offset 2 whatever the width of the bpm field
ParseHrm_EnergyAtFixedOffset(data) ==
    IF Len(data) < RrIntervalIndex(data)
      THEN IndexPanic
      ELSE LET rr_interval_index == RrIntervalIndex(data)
               rr_interval_count == (Len(data) - rr_interval_index) \div 2
           IN HeartRateMeasurement(
                IF BitSet(data[1], 1) THEN U16FromLeBytes(data[2], data[3])
                                      ELSE data[2],
                IF BitSet(data[1], 4) THEN Some(BitSet(data[1], 2)) ELSE None,
                IF BitSet(data[1], 8)
                  THEN Some(U16FromLeBytes(data[3], data[4]))
                  ELSE None,
                [i \in 1..rr_interval_count |->
                   DurationFromTicks(
                     U16FromLeBytes(data[rr_interval_index + 2 * (i - 1) + 1],
                                    data[rr_interval_index + 2 * (i - 1) + 2]))])

\* the intervals pushed newest first
ParseHrm_IntervalsReversed(data) ==
    IF Len(data) < RrIntervalIndex(data)
      THEN IndexPanic
      ELSE LET rr_interval_index == RrIntervalIndex(data)
               rr_interval_count == (Len(data) - rr_interval_index) \div 2
           IN HeartRateMeasurement(
                IF BitSet(data[1], 1) THEN U16FromLeBytes(data[2], data[3])
                                      ELSE data[2],
                IF BitSet(data[1], 4) THEN Some(BitSet(data[1], 2)) ELSE None,
                IF BitSet(data[1], 8)
                  THEN Some(U16FromLeBytes(data[EnergyExpendedIndex(data) + 1],
                                           data[EnergyExpendedIndex(data) + 2]))
                  ELSE None,
                [i \in 1..rr_interval_count |->
                   LET k == rr_interval_count - i
                   IN DurationFromTicks(
                        U16FromLeBytes(data[rr_interval_index + 2 * k + 1],
                                       data[rr_interval_index + 2 * k + 2]))])

\* parse_hrm (lines 32-71).  The fields are evaluated in the order written;
\* when the buffer is shorter than the announced fields, the read of the bpm
\* or of the energy field indexes past the end and panics, before the
\* subtraction of line 59 is reached.
ParseHrm(data) ==
    IF Len(data) < RrIntervalIndex(data)
      THEN IndexPanic
      ELSE LET rr_interval_index == RrIntervalIndex(data)
               rr_interval_count == (Len(data) - rr_interval_index) \div 2
           IN HeartRateMeasurement(
                IF BitSet(data[1], 1) THEN U16FromLeBytes(data[2], data[3])
                                      ELSE data[2],
                IF BitSet(data[1], 4) THEN Some(BitSet(data[1], 2)) ELSE None,
                IF BitSet(data[1], 8)
                  THEN Some(U16FromLeBytes(data[EnergyExpendedIndex(data) + 1],
                                           data[EnergyExpendedIndex(data) + 2]))
                  ELSE None,
                [i \in 1..rr_interval_count |->
                   DurationFromTicks(
                     U16FromLeBytes(data[rr_interval_index + 2 * (i - 1) + 1],
                                    data[rr_interval_index + 2 * (i - 1) + 2]))])

\* no decoder and no formatter at work: the state of these variables in the
\* specifications of the scheduler and of the ingest actor
PureIdle ==
    /\ hrm_data = << 0, 0 >>
    /\ hrm_result = None
    /\ address_prefix = << >>
    /\ param = << >>
    /\ address = None

\* a notification has arrived and is about to be decoded
HrmInput ==
    /\ hrm_data \in Buffers
    /\ hrm_result = None
    /\ address_prefix = << >>
    /\ param = << >>
    /\ address = None

\* the call parse_hrm(data)
ParseStep ==
    /\ hrm_result = None
    /\ hrm_result' = Some(ParseHrm(hrm_data))
    /\ UNCHANGED <<hrm_data, address_prefix, param, address>>
    /\ UNCHANGED <<oscVars, wsVars>>

(***************************************************************************)
(* format_address (osc.rs).  A String is a sequence of characters; "a" and  *)
(* "b" stand for the characters that are not "/".                          *)
(***************************************************************************)
MaxStr == 3

Chars == {"/", "a", "b"}

\* the strings of at most MaxStr characters
Strings == UNION { [1..n -> Chars] : n \in 0..MaxStr }

\* address.find("//"): the first position of the pattern, as Some(pos) with
\* pos counted from 0, or None
FindSlashSlash(str) ==
    LET hits == { i \in 1..(Len(str) - 1) : str[i] = "/" /\ str[i + 1] = "/" }
    IN IF hits = {} THEN None
       ELSE Some((CHOOSE i \in hits : \A k \in hits : i <= k) - 1)

\* address.replace_range(pos..pos + 2, "/")
ReplaceRange(str, pos) ==
    SubSeq(str, 1, pos) \o << "/" >> \o SubSeq(str, pos + 3, Len(str))

\* the first "//" replaced, and no loop
CollapseSlashes_OnlyFirst(str) ==
    IF FindSlashSlash(str) = None THEN str
    ELSE ReplaceRange(str, FindSlashSlash(str)[1])

\* the while-let loop of format_address (lines 101-103)
RECURSIVE CollapseSlashes(_)
CollapseSlashes(str) ==
    IF FindSlashSlash(str) = None THEN str
    ELSE CollapseSlashes(ReplaceRange(str, FindSlashSlash(str)[1]))

\* format_address (lines 99-105)
FormatAddress(prefix, name) == CollapseSlashes(prefix \o << "/" >> \o name)

\* the settings hold a prefix and a parameter name, not formatted yet
AddrInput ==
    /\ hrm_data = << 0, 0 >>
    /\ hrm_result = None
    /\ address_prefix \in Strings
    /\ param \in Strings
    /\ address = None

\* the call format_address(osc_settings, param)
FormatStep ==
    /\ address = None
    /\ address' = Some(FormatAddress(address_prefix, param))
    /\ UNCHANGED <<hrm_data, hrm_result, address_prefix, param>>
    /\ UNCHANGED <<oscVars, wsVars>>

OscStep ==
    \/ OpenSocket
    \/ Initialize
    \/ RecvStatus
    \/ RecvClosed
    \/ Cancelled
    \/ HeartBeatTick
    \/ PulseHoldElapsed
    \/ MimicTick

OscEnv ==
    \/ SendStatus
    \/ DropSenders
    \/ Cancel

Init == OscInit /\ WsInit /\ PureIdle

\* the emission scheduler
Next == OscStep \/ OscEnv

Spec == Init /\ [][Next]_vars

\* the websocket ingest actor
WsNext == WsStep \/ WsCancel

SpecWs == Init /\ [][WsNext]_vars

\* the decoder applied to every buffer
HrmNext == ParseStep

HrmInit == OscInit /\ WsInit /\ HrmInput

SpecHrm == HrmInit /\ [][HrmNext]_vars

\* the formatter applied to every prefix and parameter name
AddrNext == FormatStep

AddrInit == OscInit /\ WsInit /\ AddrInput

SpecAddr == AddrInit /\ [][AddrNext]_vars

(***************************************************************************)
(* Vocabulary of the properties                                            *)
(***************************************************************************)
\* Duration d is t ticks of 1/1024 s, to the nanosecond
IsTicks(d, t) ==
    /\ d.secs = t \div 1024
    /\ 2 * d.nanos - (t % 1024) * 1953125 \in {-1, 0, 1}

\* a Duration of the scheduler in nanoseconds and in whole microseconds; the
\* periods of the scheduler are below 2 s
NanosOf(d) == d.secs * 1000000000 + d.nanos
MicrosOf(d) == d.secs * 1000000 + d.nanos \div 1000

\* Duration d is 60/bpm s to the precision of an f32, i.e. to the microsecond
IsSixtyOver(d, bpm) == MicrosOf(d) - 60000000 \div bpm \in {-1, 0, 1}

IsBundle(p) == p.kind = "bundle"

Count(b, addr) == Cardinality({ i \in 1..Len(b.content) : b.content[i].addr = addr })

ArgOf(b, addr) ==
    b.content[CHOOSE i \in 1..Len(b.content) : b.content[i].addr = addr].arg

\* the packets of the last step whose send succeeded
SentOk == IF panic = SendPanic THEN SubSeq(out, 1, Len(out) - 1) ELSE out

BundlesOf(pkts) == { pkts[i] : i \in { j \in 1..Len(pkts) : IsBundle(pkts[j]) } }

\* this step is the handling of the Status at the head of the queue
RecvStep == pc = "select" /\ osc_rx # << >> /\ osc_rx' = Tail(osc_rx)

\* the variables only the osc task writes
taskVars == <<pc, hr_status, toggle_beat, use_real_rr, latest_rr, heart_beat_interval,
              mimic_ble_activity, out, panic, branch, prev_mimic>>

\* this step is a step of the osc task
TaskStep == RecvStep \/ taskVars' # taskVars

\* bundle b carries the bpm of Status st and, when st has bpm > 0 and an
\* interval, its last interval in milliseconds
ComposedFrom(b, st) ==
    /\ IsBundle(b)
    /\ Count(b, "int_hr") = 1
    /\ ArgOf(b, "int_hr") = st.heart_rate_bpm
    /\ (st.heart_rate_bpm > 0 /\ st.rr_intervals # << >>) =>
          /\ Count(b, "latest_rr") = 1
          /\ ArgOf(b, "latest_rr") = (st.rr_intervals[Len(st.rr_intervals)] * 1000) \div 1024

(***************************************************************************)
(* C1                                                                      *)
(***************************************************************************)
\* C1 (as claimed): with hide_disconnections_pre set, while a non-zero Status
\* is cached and the task is in its loop, no bundle the task has just sent
\* (for a Status or on a mimic tick) says connected = false.
C1_HiddenDisconnectNeverSent ==
    (hide_disconnections_pre /\ hr_status.heart_rate_bpm > 0 /\ pc \in {"select", "hold"})
        => \A b \in BundlesOf(out) : ArgOf(b, "connected") = TRUE

(***************************************************************************)
(* C2                                                                      *)
(***************************************************************************)
\* C2 (as claimed): handling any received Status hands exactly one bundle
\* composed from that Status to the socket, within the same step.
C2_EveryStatusAnswered ==
    [][RecvStep => (Len(out') = 1 /\ ComposedFrom(out'[1], Head(osc_rx)))]_vars

\* C2 (amended): handling a received Status hands exactly one bundle composed
\* from it to the socket, except a zero-bpm Status under
\* hide_disconnections_pre, for which nothing is sent.
C2_StatusAnsweredUnlessHidden ==
    [][RecvStep =>
         IF Head(osc_rx).heart_rate_bpm = 0 /\ hide_disconnections_pre
           THEN out' = << >>
           ELSE Len(out') = 1 /\ ComposedFrom(out'[1], Head(osc_rx))]_vars

\* C2 witness: a Status with bpm 150 was answered by one bundle carrying 150
C2_Witness ==
    /\ pc = "select"
    /\ branch = "recv"
    /\ Len(out) = 1
    /\ ArgOf(out[1], "int_hr") = 150

(***************************************************************************)
(* C3                                                                      *)
(***************************************************************************)
\* the structure every bundle has: one integer bpm, one float bpm mapped from
\* it, one connected flag that is true exactly when bpm > 0
BundleShape(b) ==
    /\ Count(b, "int_hr") = 1
    /\ Count(b, "float_hr_x255") = 1
    /\ Count(b, "connected") = 1
    /\ ArgOf(b, "float_hr_x255") = 2 * ArgOf(b, "int_hr") - 255
    /\ ArgOf(b, "connected") = (ArgOf(b, "int_hr") > 0)

\* C3 (as claimed): every bundle has the four values; connected iff bpm > 0;
\* the latest-interval value is 0 for bpm 0, and for a bundle sent for a
\* Status it is the last interval in ms, or 0 when the Status has none.
C3_BundleHasFourValues ==
    \A b \in BundlesOf(SentOk) :
        /\ BundleShape(b)
        /\ Count(b, "latest_rr") = 1
        /\ ArgOf(b, "int_hr") = 0 => ArgOf(b, "latest_rr") = 0
        /\ branch = "recv" =>
              /\ ArgOf(b, "int_hr") = hr_status.heart_rate_bpm
              /\ ArgOf(b, "latest_rr") =
                    IF hr_status.heart_rate_bpm > 0 /\ hr_status.rr_intervals # << >>
                      THEN (LastOf(hr_status.rr_intervals) * 1000) \div 1024
                      ELSE 0

(***************************************************************************)
(* C4                                                                      *)
(***************************************************************************)
\* C4: before a bpm > 0 Status with an interval has been handled, a bpm > 0
\* Status sets the pulse period to 60/bpm s; afterwards the period is the
\* last real interval, and a Status without intervals leaves it alone.
C4_PeriodNeverFromBpmAfterRealRr ==
    /\ [](seen_real_rr => IsTicks(latest_rr, last_real_rr))
    /\ [][RecvStep =>
            LET d == Head(osc_rx) IN
              /\ (d.heart_rate_bpm > 0 /\ d.rr_intervals = << >> /\ ~seen_real_rr)
                    => IsSixtyOver(latest_rr', d.heart_rate_bpm)
              /\ (d.rr_intervals = << >> /\ seen_real_rr) => latest_rr' = latest_rr]_vars

\* C4 witness: after a real interval (410 ticks), a Status with bpm 150 and
\* no interval was handled and the period is still 400390625 ns, not 0.4 s
C4_Witness ==
    /\ seen_real_rr
    /\ branch = "recv"
    /\ hr_status = Status(150, << >>)
    /\ last_real_rr = 410
    /\ latest_rr = [secs |-> 0, nanos |-> 400390625]

(***************************************************************************)
(* C5                                                                      *)
(***************************************************************************)
\* C5 (as claimed): a heartbeat tick handled with cached bpm > 0 sends the
\* beat toggle and beat-pulse = true and reaches the hold, and the end of the
\* hold sends beat-pulse = false, so that every tick emits all three.
C5_TickEmitsToggleAndPulse ==
    /\ (branch = "heartbeat" /\ hr_status.heart_rate_bpm > 0) =>
          /\ out = << Msg("beat_toggle", toggle_beat), Msg("beat_pulse", TRUE) >>
          /\ pc = "hold"
    /\ branch = "hold_elapsed" =>
          /\ out = << Msg("beat_pulse", FALSE) >>
          /\ panic # SendPanic

(***************************************************************************)
(* C6                                                                      *)
(***************************************************************************)
\* C6 (as claimed): once the loop was left by cancellation or by the closed
\* channel, the task has sent the reset bundle, beat-toggle = false and
\* beat-pulse = false, in this order, and has terminated.
C6_ShutdownSendsResetPackets ==
    branch \in {"cancelled", "closed"} =>
        /\ pc = "done"
        /\ Len(out) = 3
        /\ IsBundle(out[1])
        /\ ArgOf(out[1], "int_hr") = 0
        /\ ArgOf(out[1], "connected") = FALSE
        /\ out[2] = Msg("beat_toggle", FALSE)
        /\ out[3] = Msg("beat_pulse", FALSE)

(***************************************************************************)
(* C7                                                                      *)
(***************************************************************************)
\* C7 (as claimed): when the task is at its select with the token cancelled,
\* the step it takes is the cancellation branch, whatever else is ready.
C7_CancellationWinsSelect ==
    [][(pc = "select" /\ shutdown_token /\ TaskStep) => branch' = "cancelled"]_vars

(***************************************************************************)
(* C8                                                                      *)
(***************************************************************************)
\* C8 (as claimed): when the actor has taken the cancellation branch, from
\* the accept wait or from the receive wait, server_loop has returned Ok and
\* no connection is left open.
C8_CancelEndsServerLoopOk ==
    ws_branch \in {"accept_cancelled", "recv_cancelled"} =>
        /\ ws_pc = "returned"
        /\ ws_result = "Ok"
        /\ ws_conn # "open"

(***************************************************************************)
(* C9                                                                      *)
(***************************************************************************)
\* C9 (as claimed): the failure of a send in the loop never stops the task:
\* after a step of the loop that called send_to, the task is still running.
C9_SendFailureDoesNotStopLoop ==
    (branch \in {"recv", "heartbeat", "hold_elapsed", "mimic"} /\ out # << >>)
        => panic # SendPanic

(***************************************************************************)
(* C10                                                                     *)
(***************************************************************************)
\* C10: a Status with bpm > 0 handled while mimic_ble_activity is set clears
\* the flag and is answered by one bundle composed from it; only a zero-bpm
\* Status under hide_disconnections_pre sets the flag; and a mimic tick sends
\* a bundle only while the flag is set.
C10_NonZeroUpdateEndsMimicry ==
    /\ [][(RecvStep /\ mimic_ble_activity /\ Head(osc_rx).heart_rate_bpm > 0) =>
            /\ ~mimic_ble_activity'
            /\ Len(out') = 1
            /\ ComposedFrom(out'[1], Head(osc_rx))]_vars
    /\ [][(~mimic_ble_activity /\ mimic_ble_activity') =>
            /\ RecvStep
            /\ Head(osc_rx).heart_rate_bpm = 0
            /\ hide_disconnections_pre]_vars
    /\ []((branch = "mimic" /\ out # << >>) => mimic_ble_activity)

\* C10 witness: the task was mimicking and the Status it then handled, with
\* bpm > 0, ended the mimicry and was answered by its bundle
C10_Witness ==
    /\ branch = "recv"
    /\ prev_mimic
    /\ ~mimic_ble_activity
    /\ pc = "select"
    /\ Len(out) = 1
    /\ ArgOf(out[1], "int_hr") = hr_status.heart_rate_bpm

(***************************************************************************)
(* C11                                                                     *)
(***************************************************************************)
\* C11 (as claimed): every bundle a mimic tick has sent carries, as its
\* integer bpm, the bpm of the cached Status (the last Status with bpm > 0,
\* since a hidden zero-bpm Status is not cached), and so a bpm > 0.
C11_MimicBundleCarriesLastBpm ==
    (branch = "mimic" /\ SentOk # << >>) =>
        \A b \in BundlesOf(SentOk) :
            /\ ArgOf(b, "int_hr") = hr_status.heart_rate_bpm
            /\ ArgOf(b, "int_hr") > 0

(***************************************************************************)
(* C12                                                                     *)
(***************************************************************************)
\* C12 (as claimed): once the hold of a tick has elapsed and beat-pulse =
\* false was sent, the timer is rearmed with period max(P - L, 0), P being
\* latest_rr at that moment, and the task is back at its select.
C12_TimerRearmedWithFlooredPeriod ==
    (branch = "hold_elapsed" /\ panic # SendPanic) =>
        /\ pc = "select"
        /\ NanosOf(heart_beat_interval) =
              IF NanosOf(latest_rr) > PulseLengthMs * 1000000
                THEN NanosOf(latest_rr) - PulseLengthMs * 1000000
                ELSE 0

(***************************************************************************)
(* C13                                                                     *)
(***************************************************************************)
\* C13 (as claimed): the hold is raced against the cancellation signal: when
\* the token is cancelled while the task is in the hold, the step the task
\* takes next is the cancellation branch, not the end of the hold.
C13_HoldRacedAgainstCancel ==
    [][(pc = "hold" /\ shutdown_token /\ TaskStep) => branch' = "cancelled"]_vars

(***************************************************************************)
(* Vocabulary of the properties of the ingest actor                        *)
(***************************************************************************)
\* this step is the handling of an item yielded by server.next()
RecvItemStep ==
    ws_pc = "receiving" /\ ws_branch' = "recv" /\ cancel_token' = cancel_token

\* this step is the completion of listener.accept()
AcceptStep ==
    ws_pc = "accept" /\ ws_branch' = "accept" /\ cancel_token' = cancel_token

\* this step is the completion of the protocol handshake
HandshakeStep ==
    ws_pc = "handshake" /\ ws_branch' = "handshake" /\ cancel_token' = cancel_token

\* a text frame that decoded as the JSON record
Decoded(item) == item.type = "text" /\ item.json # None

\* a text frame that did not decode, or a frame that is not text
Unusable(item) == (item.type = "text" /\ item.json = None) \/ item.type = "binary"

\* a transport error or the end of the stream
Ended(item) == item.type \in {"err", "none"}

OneErrorReport(o) == Len(o) = 1 /\ o[1].kind = "error"

(***************************************************************************)
(* C14                                                                     *)
(***************************************************************************)
\* C14: once a message has been decoded, the bpm of the Status is the bpm of
\* the last decoded message; the interval sequence never has more than one
\* element, and holds exactly the interval of the last decoded message that
\* supplied one (nothing before any did).
C14_StatusTracksLastDecoded ==
    /\ ws_last_bpm # None => ws_hr_status.heart_rate_bpm = ws_last_bpm[1]
    /\ Len(ws_hr_status.rr_intervals) <= 1
    /\ ws_hr_status.rr_intervals =
          IF ws_last_rr = None THEN << >> ELSE << ws_last_rr[1] >>

\* C14 witness: the last decoded message had bpm 75 and no interval; the
\* Status has bpm 75 and the single interval 1200 ms of an earlier message
C14_Witness ==
    /\ Decoded(ws_awaited)
    /\ ws_awaited.json[1].bpm = 75
    /\ ws_awaited.json[1].latest_rr_ms = None
    /\ ws_hr_status.heart_rate_bpm = 75
    /\ ws_hr_status.rr_intervals = << 1200 >>

(***************************************************************************)
(* C15                                                                     *)
(***************************************************************************)
\* C15: a decoded message without a battery field leaves the battery
\* indicator as it was, one without an interval field leaves the interval
\* sequence as it was; the indicator is not-reported until a message reports
\* a percentage; and both change only by a decoded message that has the field.
C15_AbsentFieldsLeaveStatus ==
    /\ [](ws_last_bpm = None => ws_hr_status.battery_level = BatteryNotReported)
    /\ [][(RecvItemStep /\ Decoded(ws_awaited')) =>
            LET j == ws_awaited'.json[1] IN
              /\ j.battery = None =>
                    ws_hr_status'.battery_level = ws_hr_status.battery_level
              /\ j.battery # None =>
                    ws_hr_status'.battery_level = BatteryLevel(j.battery[1])
              /\ j.latest_rr_ms = None =>
                    ws_hr_status'.rr_intervals = ws_hr_status.rr_intervals
              /\ j.latest_rr_ms # None =>
                    ws_hr_status'.rr_intervals = << j.latest_rr_ms[1] >>]_vars
    /\ [][ws_hr_status'.battery_level # ws_hr_status.battery_level =>
            /\ RecvItemStep
            /\ Decoded(ws_awaited')
            /\ ws_awaited'.json[1].battery # None]_vars
    /\ [][ws_hr_status'.rr_intervals # ws_hr_status.rr_intervals =>
            /\ RecvItemStep
            /\ Decoded(ws_awaited')
            /\ ws_awaited'.json[1].latest_rr_ms # None]_vars

\* C15 witness: the message just decoded had neither field and the Status
\* still has the percentage and the interval of earlier messages
C15_Witness ==
    /\ ws_branch = "recv"
    /\ Decoded(ws_awaited)
    /\ ws_awaited.json[1].battery = None
    /\ ws_awaited.json[1].latest_rr_ms = None
    /\ ws_hr_status.battery_level = BatteryLevel(80)
    /\ ws_hr_status.rr_intervals = << 850 >>

C17_StreamEndReturnsToListening ==
    /\ [][(RecvItemStep /\ Ended(ws_awaited')) =>
            /\ OneErrorReport(ws_out')
            /\ ws_pc' = "accept"
            /\ ws_conn' = "none"
            /\ ws_conns' = 0
            /\ ws_result' = "none"]_vars
    /\ [](ws_pc = "accept" => ENABLED Accept)

\* C17 witness: the client of a connection that had delivered bpm 75 went
\* away, and the actor is listening again
C17_Witness ==
    /\ ws_branch = "recv"
    /\ ws_awaited.type = "none"
    /\ ws_out = << ErrorPopup("Intermittent", "Websocket client disconnected") >>
    /\ ws_hr_status.heart_rate_bpm = 75
    /\ ws_pc = "accept"
    /\ ws_result = "none"
    /\ ~cancel_token

(***************************************************************************)
(* C18                                                                     *)
(***************************************************************************)
\* C18: a failed accept and a failed handshake are each answered by one
\* error report; the connection, if any, is dropped, the actor is at the
\* accept wait again without having been Receiving, server_loop is still
\* running and the Status is as it was.
C18_FailedAcceptOrHandshakeOnlyReported ==
    [][((AcceptStep /\ ws_awaited'.type = "accept_err")
          \/ (HandshakeStep /\ ws_awaited'.type = "handshake_err")) =>
          /\ OneErrorReport(ws_out')
          /\ ws_pc' = "accept"
          /\ ws_conn' = "none"
          /\ ws_conns' = 0
          /\ ws_result' = "none"
          /\ ws_hr_status' = ws_hr_status]_vars

\* C18 witness: the handshake of a later connection failed; the Status still
\* has the bpm 60 of an earlier connection and the actor is listening
C18_Witness ==
    /\ ws_branch = "handshake"
    /\ ws_awaited.type = "handshake_err"
    /\ OneErrorReport(ws_out)
    /\ ws_hr_status.heart_rate_bpm = 60
    /\ ws_pc = "accept"
    /\ ws_conns = 0

(***************************************************************************)
(* C19                                                                     *)
(***************************************************************************)
\* C19: the actor never holds more than one connection; it holds one exactly
\* while it is at the handshake or in the receive loop; and a connection is
\* taken only at the accept wait, when none is held.
C19_AtMostOneConnection ==
    /\ [](ws_conns \in {0, 1})
    /\ []((ws_conns = 1) <=> (ws_pc \in {"handshake", "receiving"}))
    /\ []((ws_conns = 1) <=> (ws_conn # "none"))
    /\ [][ws_conns' > ws_conns => (ws_pc = "accept" /\ ws_conns = 0)]_vars

\* C19 witness: a connection has been accepted after an earlier one had
\* delivered bpm 60 and ended; it is the only one held
C19_Witness ==
    /\ ws_branch = "accept"
    /\ ws_awaited.type = "accepted"
    /\ ws_pc = "handshake"
    /\ ws_conns = 1
    /\ ws_hr_status.heart_rate_bpm = 60

(***************************************************************************)
(* C20                                                                     *)
(***************************************************************************)
\* C20 (as claimed): when a connection has ended by a transport error or the
\* end of the stream, the Status of the actor has bpm 0 and no interval.
C20_StatusResetOnDisconnect ==
    (ws_branch = "recv" /\ Ended(ws_awaited)) =>
        /\ ws_hr_status.heart_rate_bpm = 0
        /\ ws_hr_status.rr_intervals = << >>

(***************************************************************************)
(* Vocabulary of the properties of the decoder                             *)
(***************************************************************************)
\* bit n of the flag byte of the buffer
FlagBit(n) == (hrm_data[1] \div (2 ^ n)) % 2 = 1

\* the bytes the flags announce before the intervals: flags, bpm, energy
AnnouncedLength ==
    1 + (IF FlagBit(0) THEN 2 ELSE 1) + (IF FlagBit(3) THEN 2 ELSE 0)

\* parse_hrm has been called on a buffer long enough for the announced fields
DecodedLongEnough == hrm_result # None /\ Len(hrm_data) >= AnnouncedLength

\* the little-endian 16-bit value of bytes k and k + 1 of the source's slice
LeAt(k) == hrm_data[k + 1] + 256 * hrm_data[k + 2]

(***************************************************************************)
(* C21                                                                     *)
(***************************************************************************)
\* C21: for a buffer long enough for the fields its flags announce, parse_hrm
\* returns a measurement (it does not panic) in which sensor contact is
\* present iff bit 2 is set, and then equals bit 1; energy is present iff
\* bit 3 is set; and bpm is bytes 1..2 as 16 bits iff bit 0 is set, byte 1
\* otherwise.
C21_FieldPresenceMatchesFlags ==
    DecodedLongEnough =>
        LET m == hrm_result[1] IN
          /\ m.kind = "measurement"
          /\ (m.is_sensor_contact_detected # None) <=> FlagBit(2)
          /\ FlagBit(2) => m.is_sensor_contact_detected = Some(FlagBit(1))
          /\ (m.energy_expended # None) <=> FlagBit(3)
          /\ m.bpm = IF FlagBit(0) THEN LeAt(1) ELSE hrm_data[2]

\* C21 witness: flags 0b01111 with bytes 10, 1, 255, 1 decoded to bpm 266,
\* contact detected, energy 511
C21_Witness ==
    /\ hrm_data = << 15, 10, 1, 255, 1 >>
    /\ hrm_result = Some(HeartRateMeasurement(266, Some(TRUE), Some(511), << >>))

(***************************************************************************)
(* C22                                                                     *)
(***************************************************************************)
\* C22: a 16-bit bpm is the little-endian value of bytes 1..2, so that
\* [1, 10, 1] gives 266; the energy field, when present, is the little-endian
\* value of the two bytes right after the bpm field: offset 2 after an 8-bit
\* bpm, offset 3 after a 16-bit bpm.
C22_OffsetsAreCumulative ==
    DecodedLongEnough =>
        LET m == hrm_result[1] IN
          /\ m.kind = "measurement"
          /\ FlagBit(0) => m.bpm = LeAt(1)
          /\ (FlagBit(3) /\ ~FlagBit(0)) => m.energy_expended = Some(LeAt(2))
          /\ (FlagBit(3) /\ FlagBit(0)) => m.energy_expended = Some(LeAt(3))
          /\ hrm_data = << 1, 10, 1 >> => m.bpm = 266

\* C22 witness: flags 0b01001 with bpm bytes 1, 10 and energy bytes 255, 10
\* decoded to bpm 2561 and energy 2815
C22_Witness ==
    /\ hrm_data = << 9, 1, 10, 255, 10 >>
    /\ hrm_result # None
    /\ hrm_result[1].kind = "measurement"
    /\ hrm_result[1].bpm = 2561
    /\ hrm_result[1].energy_expended = Some(2815)

(***************************************************************************)
(* C23                                                                     *)
(***************************************************************************)
\* C23: the bytes after the bpm and energy fields are decoded, two by two and
\* in buffer order, as little-endian tick counts of 1/1024 s: the sequence
\* has floor(remaining / 2) intervals, the i-th being the i-th pair.
C23_IntervalsInBufferOrder ==
    DecodedLongEnough =>
        LET m == hrm_result[1]
            remaining == Len(hrm_data) - AnnouncedLength
        IN /\ m.kind = "measurement"
           /\ Len(m.rr_intervals) = remaining \div 2
           /\ \A i \in 1..(remaining \div 2) :
                 IsTicks(m.rr_intervals[i], LeAt(AnnouncedLength + 2 * (i - 1)))

\* C23 witness: flags 0b10000, bpm 10, then the pairs 10, 1 (266 ticks) and
\* 1, 10 (2561 ticks) and one byte left over: two intervals, 266 ticks first
C23_Witness ==
    /\ hrm_data = << 16, 10, 10, 1, 1, 10, 255 >>
    /\ hrm_result # None
    /\ hrm_result[1].kind = "measurement"
    /\ Len(hrm_result[1].rr_intervals) = 2
    /\ hrm_result[1].rr_intervals[1] = [secs |-> 0, nanos |-> 259765625]
    /\ hrm_result[1].rr_intervals[2].secs = 2

(***************************************************************************)
(* C24                                                                     *)
(***************************************************************************)
\* the latest interval falls short of the expected 60000 / bpm ms by more
\* than the threshold fraction of it (rising), or exceeds it by more than that
\* (falling); a deviation of exactly the threshold is neither
RisingFor(bpm, latest) == (60000 - latest * bpm) * 1000 > RrTwitchThreshold * 60000
FallingFor(bpm, latest) == (latest * bpm - 60000) * 1000 > RrTwitchThreshold * 60000

RECURSIVE RunsCollapsed(_)
RunsCollapsed(str) ==
    IF Len(str) <= 1 THEN str
    ELSE LET init == RunsCollapsed(SubSeq(str, 1, Len(str) - 1))
         IN IF str[Len(str)] = "/" /\ str[Len(str) - 1] = "/"
              THEN init
              ELSE Append(init, str[Len(str)])

\* C25: format_address returns, for every prefix and parameter name, the
\* string prefix + "/" + param with every run of "/" collapsed to one "/";
\* the result has no "//".
C25_AddressHasNoDoubleSlash ==
    address # None =>
        /\ address[1] = RunsCollapsed(address_prefix \o << "/" >> \o param)
        /\ \A i \in 1..(Len(address[1]) - 1) :
              ~(address[1][i] = "/" /\ address[1][i + 1] = "/")

\* C25 witness: prefix "/a/" and parameter "//b" make the run "////", and
\* the address is "/a/b"
C25_Witness ==
    /\ address_prefix = << "/", "a", "/" >>
    /\ param = << "/", "/", "b" >>
    /\ address = Some(<< "/", "a", "/", "b" >>)

(***************************************************************************)
(* C26                                                                     *)
(***************************************************************************)
\* C26 (as claimed): in every state the heartbeat timer is armed with a
\* period > 0, and no rearm has been rejected: a rearm with a pulse period
\* not longer than the pulse length arms it with a period > 0 as well.
C26_TimerPeriodAlwaysPositive ==
    /\ NanosOf(heart_beat_interval) > 0
    /\ panic # IntervalPanic

(***************************************************************************)
(* C27                                                                     *)
(***************************************************************************)
\* this step is the handling of a tick of heart_beat_interval
TickStep ==
    /\ pc = "select"
    /\ branch' = "heartbeat"
    /\ osc_rx' = osc_rx
    /\ senders_dropped' = senders_dropped
    /\ shutdown_token' = shutdown_token

IsBeatMsg(p) == p.kind = "msg" /\ p.addr \in {"beat_toggle", "beat_pulse"}

\* C27: a heartbeat tick handled while the cached bpm is 0 sends nothing,
\* keeps the toggle value and the armed period, and leaves the task at its
\* select; a beat message is handed to the socket only by the initial and
\* final packets and, in between, by a tick or its hold with cached bpm > 0.
C27_IdleTickSendsNothing ==
    /\ [][(TickStep /\ hr_status.heart_rate_bpm = 0) =>
            /\ out' = << >>
            /\ toggle_beat' = toggle_beat
            /\ heart_beat_interval' = heart_beat_interval
            /\ latest_rr' = latest_rr
            /\ pc' = "select"]_vars
    /\ []((\E i \in 1..Len(out) : IsBeatMsg(out[i])) =>
            \/ branch \in {"init", "cancelled", "closed"}
            \/ (branch \in {"heartbeat", "hold_elapsed"} /\ hr_status.heart_rate_bpm > 0))
    /\ [](pc = "hold" => hr_status.heart_rate_bpm > 0)

\* C27 witness: a zero-bpm Status with an interval was cached (the policy is
\* off), the timer ticked, and nothing was sent
C27_Witness ==
    /\ ~hide_disconnections_pre
    /\ branch = "heartbeat"
    /\ hr_status = Status(0, << 870 >>)
    /\ out = << >>
    /\ pc = "select"
    /\ toggle_beat = FALSE

(***************************************************************************)
(* C28                                                                     *)
(***************************************************************************)
\* C28: under hide_disconnections_pre, handling a zero-bpm Status sets the
\* mimic flag and changes nothing else: not the cached Status, the pulse
\* period, the real-interval flag, the toggle value or the armed period, and
\* nothing is sent; and a tick handled while mimicking with cached bpm > 0
\* still starts a pulse: the toggle message is the first packet handed to
\* the socket.
C28_HiddenZeroChangesOnlyMimicFlag ==
    /\ [][(RecvStep /\ hide_disconnections_pre /\ Head(osc_rx).heart_rate_bpm = 0) =>
            /\ mimic_ble_activity'
            /\ hr_status' = hr_status
            /\ latest_rr' = latest_rr
            /\ use_real_rr' = use_real_rr
            /\ toggle_beat' = toggle_beat
            /\ heart_beat_interval' = heart_beat_interval
            /\ out' = << >>
            /\ pc' = "select"]_vars
    /\ [][(TickStep /\ mimic_ble_activity /\ hr_status.heart_rate_bpm > 0) =>
            /\ out' # << >>
            /\ out'[1] = Msg("beat_toggle", toggle_beat)
            /\ latest_rr' = latest_rr]_vars

\* C28 witness: bpm 60 with real intervals was cached, the handled zero-bpm
\* Status set the flag, and the period is still the 410 ticks of before
C28_Witness ==
    /\ hide_disconnections_pre
    /\ branch = "recv"
    /\ ~prev_mimic
    /\ mimic_ble_activity
    /\ out = << >>
    /\ hr_status = Status(60, << 1024, 410 >>)
    /\ latest_rr = [secs |-> 0, nanos |-> 400390625]
    /\ use_real_rr

====
